---- MODULE Spec2Model ----
(***************************************************************************)
(* Verification model of mcut/internal/math.h (MCUT geometric kernel):     *)
(* axis-aligned bounding boxes, dense matrices, the exact orientation      *)
(* determinants and the quantize/dequantize conversion of rational_number. *)
(*                                                                         *)
(* scalar_t is modelled in its exact realisation (rational_number, built   *)
(* with MCUT_WITH_ARBITRARY_PRECISION_NUMBERS) restricted to integer       *)
(* values, so +, -, * and < are the exact operations of the source.        *)
(***************************************************************************)
EXTENDS Integers, Sequences, FiniteSets, TLC

\* Magnitude of the stand-in for std::numeric_limits<double>::max(): the
\* coordinates of the bounding-box machines range over -MaxCoord .. MaxCoord.
MaxCoord == 1

\* Longest vertex array handed to make_bbox / longest run of expand(point).
MaxVerts == 3

\* std::numeric_limits<double>::max(), the largest coordinate there is.
DBL_MAX == MaxCoord

Coords == (-DBL_MAX) .. DBL_MAX

Dims == 1 .. 3

\* vec3_: <<x, y, z>>
Vec3 == [Dims -> Coords]

\* vec3_(const T& value)
vec3_splat(value) == [dim \in Dims |-> value]

\* A min that always returns its first argument: the mutant of min.
min_first(a, b) == a

\* template min: ((b < a) ? b : a)
min(a, b) == IF b < a THEN b ELSE a

\* A max that always returns its second argument: the mutant of max.
max_second(a, b) == b

\* template max: ((a < b) ? b : a)
max(a, b) == IF a < b THEN b ELSE a

compwise_min(a, b) == [dim \in Dims |-> min(a[dim], b[dim])]

compwise_max(a, b) == [dim \in Dims |-> max(a[dim], b[dim])]

\* bounding_box_t(minimum, maximum)
bounding_box_t(minimum, maximum) == [m_minimum |-> minimum, m_maximum |-> maximum]

\* bounding_box_t(): the empty box, (+max, -max) on every axis
bounding_box_default ==
    bounding_box_t(vec3_splat(DBL_MAX), vec3_splat(-DBL_MAX))

\* An expand(point) that forgets m_minimum: the mutant of expand_point.
expand_point_max_only(bbox, point) ==
    [m_maximum |-> compwise_max(bbox.m_maximum, point),
     m_minimum |-> bbox.m_minimum]

\* expand(point)
expand_point(bbox, point) ==
    [m_maximum |-> compwise_max(bbox.m_maximum, point),
     m_minimum |-> compwise_min(bbox.m_minimum, point)]

\* expand(bbox)
expand_box(bbox, other) ==
    [m_maximum |-> compwise_max(bbox.m_maximum, other.m_maximum),
     m_minimum |-> compwise_min(bbox.m_minimum, other.m_minimum)]

\* A MaximumExtent that breaks ties toward the lower axis: its mutant.
MaximumExtentLowTies(bbox) ==
    LET diag == [dim \in Dims |-> bbox.m_maximum[dim] - bbox.m_minimum[dim]]
    IN  IF diag[1] >= diag[2] /\ diag[1] >= diag[3] THEN 0
        ELSE IF diag[2] >= diag[3] THEN 1
        ELSE 2

\* MaximumExtent(): 0, 1 or 2 for x, y or z
MaximumExtent(bbox) ==
    LET diag == [dim \in Dims |-> bbox.m_maximum[dim] - bbox.m_minimum[dim]]
    IN  IF diag[1] > diag[2] /\ diag[1] > diag[3] THEN 0
        ELSE IF diag[2] > diag[3] THEN 1
        ELSE 2

\* Largest coordinate of the points handed to orient2d / orient3d.
MaxOrientCoord == 1

OrientCoords == 0 .. MaxOrientCoord

MaxPlanarCoord == 2

PlanarCoords == 0 .. MaxPlanarCoord

\* An orient2d with the sign of the second product flipped: its mutant.
orient2d_plus(pa, pb, pc) ==
    LET acx == pa[1] - pc[1]
        bcx == pb[1] - pc[1]
        acy == pa[2] - pc[2]
        bcy == pb[2] - pc[2]
    IN  acx * bcy + acy * bcx

\* An orient2d that takes bcx from pa: its second mutant.
orient2d_copied(pa, pb, pc) ==
    LET acx == pa[1] - pc[1]
        bcx == pa[1] - pc[1]
        acy == pa[2] - pc[2]
        bcy == pb[2] - pc[2]
    IN  acx * bcy - acy * bcx

\* orient2d(const scalar_t* pa, pb, pc): pa[0], pa[1] are pa[1], pa[2] here
orient2d(pa, pb, pc) ==
    LET acx == pa[1] - pc[1]
        bcx == pb[1] - pc[1]
        acy == pa[2] - pc[2]
        bcy == pb[2] - pc[2]
    IN  acx * bcy - acy * bcx

\* An orient3d whose last cofactor adds instead of subtracting: its mutant.
orient3d_plus(pa, pb, pc, pd) ==
    LET adx == pa[1] - pd[1]
        bdx == pb[1] - pd[1]
        cdx == pc[1] - pd[1]
        ady == pa[2] - pd[2]
        bdy == pb[2] - pd[2]
        cdy == pc[2] - pd[2]
        adz == pa[3] - pd[3]
        bdz == pb[3] - pd[3]
        cdz == pc[3] - pd[3]
    IN  adx * (bdy * cdz - bdz * cdy) + bdx * (cdy * adz - cdz * ady)
            + cdx * (ady * bdz + adz * bdy)

\* orient3d(const scalar_t* pa, pb, pc, pd)
orient3d(pa, pb, pc, pd) ==
    LET adx == pa[1] - pd[1]
        bdx == pb[1] - pd[1]
        cdx == pc[1] - pd[1]
        ady == pa[2] - pd[2]
        bdy == pb[2] - pd[2]
        cdy == pc[2] - pd[2]
        adz == pa[3] - pd[3]
        bdz == pb[3] - pd[3]
        cdz == pc[3] - pd[3]
    IN  adx * (bdy * cdz - bdz * cdy) + bdx * (cdy * adz - cdz * ady)
            + cdx * (ady * bdz - adz * bdy)

\* collinear(a, b, c, predResult): predResult = orient2d(a, b, c), and the
\* returned value predResult == 0
collinear(a, b, c) ==
    LET predResult == orient2d(a, b, c)
    IN  predResult = 0

\* Largest row count, column count and entry of the matrices drawn.
MaxRows == 2

MaxCols == 3

MaxEntry == 1

Entries == 0 .. MaxEntry

\* matrix_t(rows, cols): row-major entries, all zero
matrix_t(rows, cols) ==
    [m_rows |-> rows, m_cols |-> cols, m_entries |-> [e \in 1 .. rows * cols |-> 0]]

\* Index into m_entries of operator()(row, col): (size_t)row * m_cols + col
EntryIndex(M, row, col) == row * M.m_cols + col

\* operator()(row, col) const.  std::vector::operator[] does not check the
\* index: past the end the read is undefined, and yields what `beyond` holds.
Entry(M, row, col, beyond) ==
    LET index == EntryIndex(M, row, col)
    IN  IF index < Len(M.m_entries) THEN M.m_entries[index + 1] ELSE beyond[index]

\* The indices operator*(const matrix_t&) reads past the end of other.m_entries.
ReadsBeyond(this, other) ==
    {EntryIndex(other, k, j) : k \in 0 .. this.m_cols - 1, j \in 0 .. other.m_cols - 1}
        \ (0 .. Len(other.m_entries) - 1)

RECURSIVE MulAccumulate(_, _, _, _, _, _)
\* for (k = from; k < this->cols(); ++k) result(i, j) += (*this)(i, k) * other(k, j)
MulAccumulate(this, other, i, j, from, beyond) ==
    IF from < this.m_cols
    THEN Entry(this, i, from, beyond) * Entry(other, from, j, beyond)
            + MulAccumulate(this, other, i, j, from + 1, beyond)
    ELSE 0

\* operator*(const matrix_t& other): no assertion; result is rows() x other.cols()
matrix_mul(this, other, beyond) ==
    [m_rows |-> this.m_rows,
     m_cols |-> other.m_cols,
     m_entries |->
        [e \in 1 .. this.m_rows * other.m_cols |->
            MulAccumulate(this, other, (e - 1) \div other.m_cols, (e - 1) % other.m_cols,
                          0, beyond)]]

\* operator-(const matrix_t& m), past its two assertions
matrix_sub(this, m) ==
    [m_rows |-> this.m_rows,
     m_cols |-> this.m_cols,
     m_entries |-> [e \in 1 .. this.m_rows * this.m_cols |-> this.m_entries[e] - m.m_entries[e]]]

RECURSIVE MulVecAccumulate(_, _, _, _)
\* for (col = from; col < cols(); ++col) result[row] = result[row] + (*this)(row, col) * v[col]
MulVecAccumulate(this, v, row, from) ==
    IF from < this.m_cols
    THEN this.m_entries[EntryIndex(this, row, from) + 1] * v[from + 1]
            + MulVecAccumulate(this, v, row, from + 1)
    ELSE 0

\* vec2 operator*(const vec3& v), past its two assertions
matrix_mul_vec3(this, v) == [row \in 1 .. 2 |-> MulVecAccumulate(this, v, row - 1, 0)]

\* Scaled-down binary floating point.  TLC's integers cannot hold a 53-bit
\* mantissa times 2^26, so the two widths are scaled together: a double is
\* an integer with at most MantissaBits significant bits (53 in the source's
\* double), and the quantization grid is 2^QuantBits (1 << 26 in the
\* source).  Rounding, truncation and the order of the operations are the
\* source's.
QuantBits == 3

MantissaBits == 6

\* 1 << 26
QuantScale == 2^QuantBits

Abs(x) == IF x < 0 THEN -x ELSE x

RECURSIVE OddPart(_)
OddPart(v) == IF v % 2 = 0 THEN OddPart(v \div 2) ELSE v

\* v is a double: zero, or an integer of at most MantissaBits significant bits.
IsDouble(v) == v = 0 \/ OddPart(Abs(v)) < 2^MantissaBits

\* The magnitudes below 2^(MantissaBits + QuantBits) that are doubles.
DoubleTop == 2^(MantissaBits + QuantBits)

Doubles == {v \in (1 - DoubleTop) .. (DoubleTop - 1) : IsDouble(v)}

\* a / b rounded to the nearest integer, ties to the even one (a >= 0, b > 0).
RoundNearestEven(a, b) ==
    LET q == a \div b
        r == a % b
    IN  IF 2 * r < b THEN q
        ELSE IF 2 * r > b THEN q + 1
        ELSE IF q % 2 = 0 THEN q ELSE q + 1

RECURSIVE NormalizingShift(_, _, _)
\* The least t >= from with a * 2^t >= 2^(MantissaBits - 1) * b (a, b > 0).
NormalizingShift(a, b, from) ==
    IF a * 2^from >= 2^(MantissaBits - 1) * b THEN from
    ELSE NormalizingShift(a, b, from + 1)

\* d / m in double arithmetic, 0 < |d| <= m: the quotient rounded to
\* MantissaBits significant bits, as the dyadic number (+-) mant / 2^shift.
DoubleDivide(d, m) ==
    LET shift == NormalizingShift(Abs(d), m, MantissaBits - 1)
    IN  [negative |-> d < 0,
         mant |-> RoundNearestEven(Abs(d) * 2^shift, m),
         shift |-> shift]

\* MCUT_ASSERT(std::abs(d) <= m); MCUT_ASSERT(m != 0);
QuantizeAsserts(d, m) == Abs(d) <= m /\ m # 0

\* A conversion that rounds to the nearest integer: the mutant of TruncateScaled.
RoundScaled(n) ==
    LET magnitude == RoundNearestEven(n.mant * QuantScale, 2^n.shift)
    IN  IF n.negative THEN -magnitude ELSE magnitude

\* int(n * (1 << 26)): the product is exact, the conversion drops the fraction.
TruncateScaled(n) ==
    LET magnitude == (n.mant * QuantScale) \div 2^n.shift
    IN  IF n.negative THEN -magnitude ELSE magnitude

\* quantize(d, m), past its assertions
quantize(d, m) ==
    IF d = 0 THEN 0
    ELSE TruncateScaled(DoubleDivide(d, m))

RECURSIVE FloorLog2(_, _, _)
\* The greatest e >= from with 2^e * b <= a (a >= 2^from * b > 0).
FloorLog2(a, b, from) ==
    IF 2^(from + 1) * b <= a THEN FloorLog2(a, b, from + 1) ELSE from

\* Spacing of the doubles around a / b >= 0: 2^(e - MantissaBits + 1) where
\* 2^e <= a / b < 2^(e + 1), and 1 below 2^(MantissaBits - 1).
Spacing(a, b) ==
    IF a < 2^(MantissaBits - 1) * b THEN 1
    ELSE 2^(FloorLog2(a, b, MantissaBits - 1) - MantissaBits + 1)

\* The two conversions bigrational::get_d() may be (its source is not part
\* of this header; the header's comment says "truncated").
RoundModes == {"toward_zero", "nearest"}

\* get_d() of the rational a / b >= 0.
get_d(a, b, mode) ==
    LET g == Spacing(a, b)
    IN  IF mode = "nearest" THEN g * RoundNearestEven(a, b * g)
        ELSE g * (a \div (b * g))

\* MCUT_ASSERT(i <= rational_number(1 << 26));
DequantizeAssertsInput(i) == i <= QuantScale

\* A dequantize that divides by 1 << 25: the mutant of dequantize.
dequantize_half_scale(i, m, mode) ==
    IF i = 0 THEN 0
    ELSE LET magnitude == get_d(Abs(i) * m, QuantScale \div 2, mode)
         IN  IF i < 0 THEN -magnitude ELSE magnitude

\* dequantize(i, m), between its assertions: n = i / (1 << 26), d = n * m
\* exactly, result = d.get_d()
dequantize(i, m, mode) ==
    IF i = 0 THEN 0
    ELSE LET magnitude == get_d(Abs(i) * m, QuantScale, mode)
         IN  IF i < 0 THEN -magnitude ELSE magnitude

\* MCUT_ASSERT(result <= m);
DequantizeAssertsResult(result, m) == result <= m

VARIABLES
    dval,        \* quantize: d, the double to quantize
    mult,        \* quantize / dequantize: m, the multiplier
    quotient,    \* quantize: n = d / m
    quantized,   \* what quantize returned
    dequantized, \* what dequantize returned
    matA,        \* *this of the matrix operators
    matB,        \* their matrix argument
    outcome,     \* how the last matrix operator ended, and what it read
    pts,         \* the points pa, pb, pc, pd handed to the orientation predicates
    det,         \* what the last orientation call returned, per argument order
    bbox,        \* the bounding_box_t the calls act on
    called,      \* ghost: at least one expand call was made on bbox
    holdsPoint,  \* ghost: a point was merged into bbox, directly or through a box
    numVertices, \* make_bbox: num_vertices, the length of the vertex array
    idx,         \* make_bbox: the loop index i
    seen,        \* ghost: per axis, the coordinates of the points expanded so far
    pc,          \* position of the running call
    via,         \* "make_bbox", or "expand" for a caller's own run of expand(point)
    pre,         \* the box before the last expand(point)
    lastPoint,   \* the point of the last expand(point)
    nExpands,    \* number of expand(point) calls made
    extent,      \* the value MaximumExtent() returned
    boxA,        \* intersect_bounding_boxes: the box a
    boxB,        \* intersect_bounding_boxes: the box b
    intersects,  \* what intersect_bounding_boxes returned, per argument order
    number,      \* square_root: the quantized value whose root is asked
    sqrt_val     \* square_root: std::sqrt(dequantized)

boxVars == <<bbox, called, holdsPoint>>

makeVars == <<numVertices, idx, seen, via>>

expandVars == <<pre, lastPoint, nExpands>>

orientVars == <<pts, det>>

matVars == <<matA, matB, outcome>>

quantVars == <<dval, mult, quotient, quantized, dequantized>>

intersectVars == <<boxA, boxB, intersects>>

sqrtVars == <<number, sqrt_val>>

vars == <<boxVars, makeVars, expandVars, orientVars, matVars, quantVars, intersectVars,
          sqrtVars, pc, extent>>

\* The value of a variable the running machine does not use.
Idle == "idle"

Ordered(box) == \A dim \in Dims : box.m_minimum[dim] <= box.m_maximum[dim]

----------------------------------------------------------------------------
(* Spec: one box under expand(point) and expand(otherBox), where otherBox  *)
(* is any box built from bounding_box_t() by the same two operations.      *)

\* Boxes (with the holdsPoint ghost) one round of expand calls makes of `from`.
ExpandRound(from) ==
    from
    \cup {[box |-> expand_point(b.box, p), point |-> TRUE] : b \in from, p \in Vec3}
    \cup {[box |-> expand_box(b.box, c.box), point |-> (b.point \/ c.point)] :
              b \in from, c \in from}

OtherBoxes ==
    ExpandRound(ExpandRound({[box |-> bounding_box_default, point |-> FALSE]}))

BoxInit ==
    /\ bbox = bounding_box_default
    /\ called = FALSE
    /\ holdsPoint = FALSE
    /\ pc = "constructed"
    /\ extent = Idle
    /\ numVertices = Idle /\ idx = Idle /\ seen = Idle /\ via = Idle
    /\ pre = Idle /\ lastPoint = Idle /\ nExpands = Idle
    /\ pts = Idle /\ det = Idle
    /\ matA = Idle /\ matB = Idle /\ outcome = Idle
    /\ dval = Idle /\ mult = Idle /\ quotient = Idle /\ quantized = Idle /\ dequantized = Idle
    /\ boxA = Idle /\ boxB = Idle /\ intersects = Idle /\ number = Idle /\ sqrt_val = Idle

ExpandPoint ==
    \E p \in Vec3 :
        /\ bbox' = expand_point(bbox, p)
        /\ called' = TRUE
        /\ holdsPoint' = TRUE
        /\ UNCHANGED <<makeVars, expandVars, orientVars, pc, extent, matVars, quantVars, intersectVars, sqrtVars>>

ExpandBox ==
    \E other \in OtherBoxes :
        /\ bbox' = expand_box(bbox, other.box)
        /\ called' = TRUE
        /\ holdsPoint' = (holdsPoint \/ other.point)
        /\ UNCHANGED <<makeVars, expandVars, orientVars, pc, extent, matVars, quantVars, intersectVars, sqrtVars>>

BoxNext == ExpandPoint \/ ExpandBox

Spec == BoxInit /\ [][BoxNext]_vars

\* C1 as stated: after any non-empty sequence of expand(point) and
\* expand(otherBox) calls on a default-constructed box, minimum[dim] <=
\* maximum[dim] in every dimension.
C1_AnyExpandOrders == called => Ordered(bbox)

\* C1, amended: once a point has been merged in (directly, or through a merged
\* box that itself holds a point) minimum[dim] <= maximum[dim] in every
\* dimension; a box into which only empty boxes were merged is still the
\* empty box (+max, -max).
C1_ExpandOrdersOncePointMerged ==
    /\ holdsPoint => Ordered(bbox)
    /\ ~holdsPoint => bbox = bounding_box_default

\* A box that expand calls have grown to a positive extent.
C1_Witness ==
    /\ called
    /\ holdsPoint
    /\ Ordered(bbox)
    /\ bbox.m_minimum # bbox.m_maximum

----------------------------------------------------------------------------
(* SpecMake: a default-constructed box grown point by point, by make_bbox  *)
(* or by a caller's own run of expand(point).  The vertex array is read    *)
(* one element per iteration; `seen` keeps, per axis, what was read.       *)

MakeInit ==
    /\ bbox = bounding_box_default
    /\ numVertices \in 1 .. MaxVerts
    /\ via \in {"make_bbox", "expand"}
    /\ idx = 0
    /\ seen = [dim \in Dims |-> {}]
    /\ pc = "call"
    /\ called = Idle /\ holdsPoint = Idle /\ extent = Idle
    /\ pre = Idle /\ lastPoint = Idle /\ nExpands = Idle
    /\ pts = Idle /\ det = Idle
    /\ matA = Idle /\ matB = Idle /\ outcome = Idle
    /\ dval = Idle /\ mult = Idle /\ quotient = Idle /\ quantized = Idle /\ dequantized = Idle
    /\ boxA = Idle /\ boxB = Idle /\ intersects = Idle /\ number = Idle /\ sqrt_val = Idle

\* MCUT_ASSERT(num_vertices >= 3) fails
MakeBBoxAssert ==
    /\ pc = "call" /\ via = "make_bbox"
    /\ ~(numVertices >= 3)
    /\ pc' = "assert_failed"
    /\ UNCHANGED <<boxVars, makeVars, expandVars, orientVars, extent, matVars, quantVars, intersectVars, sqrtVars>>

\* both assertions pass
MakeBBoxEnter ==
    /\ pc = "call" /\ via = "make_bbox"
    /\ numVertices >= 3
    /\ pc' = "loop"
    /\ UNCHANGED <<boxVars, makeVars, expandVars, orientVars, extent, matVars, quantVars, intersectVars, sqrtVars>>

\* for (i = 0; i < num_vertices; ++i) bbox.expand(vertices[i])
MakeBBoxLoop ==
    /\ pc = "loop"
    /\ idx < numVertices
    /\ \E vertex \in Vec3 :
        /\ bbox' = expand_point(bbox, vertex)
        /\ seen' = [dim \in Dims |-> seen[dim] \cup {vertex[dim]}]
    /\ idx' = idx + 1
    /\ UNCHANGED <<called, holdsPoint, numVertices, via, expandVars, orientVars, pc, extent, matVars, quantVars, intersectVars, sqrtVars>>

MakeBBoxReturn ==
    /\ pc = "loop"
    /\ idx = numVertices
    /\ pc' = "done"
    /\ UNCHANGED <<boxVars, makeVars, expandVars, orientVars, extent, matVars, quantVars, intersectVars, sqrtVars>>

\* the caller's own bbox.expand(p_i), i = 1 .. numVertices
CallerExpand ==
    /\ pc = "call" /\ via = "expand"
    /\ idx < numVertices
    /\ \E point \in Vec3 :
        /\ bbox' = expand_point(bbox, point)
        /\ seen' = [dim \in Dims |-> seen[dim] \cup {point[dim]}]
    /\ idx' = idx + 1
    /\ UNCHANGED <<called, holdsPoint, numVertices, via, expandVars, orientVars, pc, extent, matVars, quantVars, intersectVars, sqrtVars>>

CallerDone ==
    /\ pc = "call" /\ via = "expand"
    /\ idx = numVertices
    /\ pc' = "done"
    /\ UNCHANGED <<boxVars, makeVars, expandVars, orientVars, extent, matVars, quantVars, intersectVars, sqrtVars>>

MakeNext ==
    \/ MakeBBoxAssert \/ MakeBBoxEnter \/ MakeBBoxLoop \/ MakeBBoxReturn
    \/ CallerExpand \/ CallerDone

SpecMake == MakeInit /\ [][MakeNext]_vars

Least(S) == CHOOSE x \in S : \A y \in S : x <= y

Greatest(S) == CHOOSE x \in S : \A y \in S : y <= x

----------------------------------------------------------------------------
(* SpecExpand: a box constructed with minimum <= maximum, expanded by a    *)
(* point and then once more by the same point.                             *)

ExpandInit ==
    /\ \E minimum \in Vec3, maximum \in Vec3 :
        /\ \A dim \in Dims : minimum[dim] <= maximum[dim]
        /\ bbox = bounding_box_t(minimum, maximum)
    /\ pre = bbox
    /\ lastPoint = vec3_splat(0)
    /\ nExpands = 0
    /\ pc = "constructed"
    /\ called = Idle /\ holdsPoint = Idle /\ extent = Idle
    /\ numVertices = Idle /\ idx = Idle /\ seen = Idle /\ via = Idle
    /\ pts = Idle /\ det = Idle
    /\ matA = Idle /\ matB = Idle /\ outcome = Idle
    /\ dval = Idle /\ mult = Idle /\ quotient = Idle /\ quantized = Idle /\ dequantized = Idle
    /\ boxA = Idle /\ boxB = Idle /\ intersects = Idle /\ number = Idle /\ sqrt_val = Idle

ExpandOnce ==
    /\ nExpands = 0
    /\ \E point \in Vec3 :
        /\ bbox' = expand_point(bbox, point)
        /\ lastPoint' = point
    /\ pre' = bbox
    /\ nExpands' = 1
    /\ UNCHANGED <<called, holdsPoint, makeVars, orientVars, pc, extent, matVars, quantVars, intersectVars, sqrtVars>>

ExpandAgain ==
    /\ nExpands = 1
    /\ bbox' = expand_point(bbox, lastPoint)
    /\ pre' = bbox
    /\ nExpands' = 2
    /\ UNCHANGED <<called, holdsPoint, lastPoint, makeVars, orientVars, pc, extent, matVars, quantVars, intersectVars, sqrtVars>>

ExpandNext == ExpandOnce \/ ExpandAgain

SpecExpand == ExpandInit /\ [][ExpandNext]_vars

Inside(point, box) ==
    \A dim \in Dims : box.m_minimum[dim] <= point[dim] /\ point[dim] <= box.m_maximum[dim]

\* C3: on a box with minimum <= maximum, expand(p) never shrinks the box,
\* leaves it unchanged when p lies inside it (boundary included), and a
\* second expand by the same point changes nothing.
C3_ExpandMonotoneIdempotent ==
    (nExpands >= 1 /\ Ordered(pre)) =>
        /\ \A dim \in Dims :
            /\ bbox.m_minimum[dim] <= pre.m_minimum[dim]
            /\ bbox.m_maximum[dim] >= pre.m_maximum[dim]
        /\ Inside(lastPoint, pre) => bbox = pre
        /\ nExpands = 2 => bbox = pre

\* A point outside the box grew it, and the repeated expand left it alone.
C3_Witness ==
    /\ nExpands = 2
    /\ Ordered(pre)
    /\ bbox = pre
    /\ \E dim \in Dims : lastPoint[dim] = bbox.m_maximum[dim] /\ bbox.m_minimum[dim] < lastPoint[dim]

----------------------------------------------------------------------------
(* SpecExtent: MaximumExtent() on any box the two constructors make.       *)

ExtentInit ==
    /\ \E minimum \in Vec3, maximum \in Vec3 : bbox = bounding_box_t(minimum, maximum)
    /\ pc = "constructed"
    /\ extent = Idle
    /\ called = Idle /\ holdsPoint = Idle
    /\ numVertices = Idle /\ idx = Idle /\ seen = Idle /\ via = Idle
    /\ pre = Idle /\ lastPoint = Idle /\ nExpands = Idle
    /\ pts = Idle /\ det = Idle
    /\ matA = Idle /\ matB = Idle /\ outcome = Idle
    /\ dval = Idle /\ mult = Idle /\ quotient = Idle /\ quantized = Idle /\ dequantized = Idle
    /\ boxA = Idle /\ boxB = Idle /\ intersects = Idle /\ number = Idle /\ sqrt_val = Idle

CallMaximumExtent ==
    /\ pc = "constructed"
    /\ extent' = MaximumExtent(bbox)
    /\ pc' = "returned"
    /\ UNCHANGED <<boxVars, makeVars, expandVars, orientVars, matVars, quantVars, intersectVars, sqrtVars>>

ExtentNext == CallMaximumExtent

SpecExtent == ExtentInit /\ [][ExtentNext]_vars

\* Extent of the box along axis 0, 1 or 2.
Extent(box, axis) == box.m_maximum[axis + 1] - box.m_minimum[axis + 1]

Axes == 0 .. 2

\* C4 as stated: MaximumExtent() returns an axis of greatest extent, and of
\* several axes tied for the greatest extent the lowest-indexed one.
C4_TiesToLowerAxis ==
    pc = "returned" =>
        /\ \A axis \in Axes : Extent(bbox, extent) >= Extent(bbox, axis)
        /\ \A axis \in Axes : Extent(bbox, axis) = Extent(bbox, extent) => extent <= axis

\* C4, amended: MaximumExtent() returns an axis of greatest extent, and of
\* several axes tied for the greatest extent the highest-indexed one (z beats
\* y beats x).
C4_TiesToHigherAxis ==
    pc = "returned" =>
        /\ \A axis \in Axes : Extent(bbox, extent) >= Extent(bbox, axis)
        /\ \A axis \in Axes : Extent(bbox, axis) = Extent(bbox, extent) => axis <= extent

\* x and y tie for the greatest extent, z is shorter, and y was returned.
C4_Witness ==
    /\ pc = "returned"
    /\ Extent(bbox, 0) = Extent(bbox, 1)
    /\ Extent(bbox, 2) < Extent(bbox, 0)
    /\ extent = 1

----------------------------------------------------------------------------
(* SpecOrient: the exact orient3d determinant on four points, called with  *)
(* its arguments in the orders the antisymmetry law compares.              *)

OrientPoints == [Dims -> OrientCoords]

OrientInit ==
    /\ pts \in [pa : OrientPoints, pb : OrientPoints, pc : OrientPoints, pd : OrientPoints]
    /\ det = Idle
    /\ pc = "drawn"
    /\ bbox = Idle /\ called = Idle /\ holdsPoint = Idle /\ extent = Idle
    /\ numVertices = Idle /\ idx = Idle /\ seen = Idle /\ via = Idle
    /\ pre = Idle /\ lastPoint = Idle /\ nExpands = Idle
    /\ matA = Idle /\ matB = Idle /\ outcome = Idle
    /\ dval = Idle /\ mult = Idle /\ quotient = Idle /\ quantized = Idle /\ dequantized = Idle
    /\ boxA = Idle /\ boxB = Idle /\ intersects = Idle /\ number = Idle /\ sqrt_val = Idle

CallOrient3d ==
    /\ pc = "drawn"
    /\ det' = [abcd |-> orient3d(pts.pa, pts.pb, pts.pc, pts.pd),
               bacd |-> orient3d(pts.pb, pts.pa, pts.pc, pts.pd),
               acbd |-> orient3d(pts.pa, pts.pc, pts.pb, pts.pd),
               cbad |-> orient3d(pts.pc, pts.pb, pts.pa, pts.pd)]
    /\ pc' = "orient3d"
    /\ UNCHANGED <<boxVars, makeVars, expandVars, pts, extent, matVars, quantVars, intersectVars, sqrtVars>>

OrientNext == CallOrient3d

SpecOrient == OrientInit /\ [][OrientNext]_vars

\* C8: swapping any two of the first three arguments of orient3d negates
\* its value: orient3d(b,a,c,d) = orient3d(a,c,b,d) = orient3d(c,b,a,d) =
\* -orient3d(a,b,c,d).
C8_Orient3dAntisymmetric ==
    pc = "orient3d" =>
        /\ det.bacd = -det.abcd
        /\ det.acbd = -det.abcd
        /\ det.cbad = -det.abcd

\* Four points in general position: the determinant is not zero.
C8_Witness ==
    /\ pc = "orient3d"
    /\ det.abcd > 0
    /\ det.bacd < 0 /\ det.acbd < 0 /\ det.cbad < 0

----------------------------------------------------------------------------
(* SpecPlanar: orient2d and collinear on three points of the plane, called *)
(* with their arguments in the orders the laws compare.                    *)

PlanarPoints == [1 .. 2 -> PlanarCoords]

PlanarInit ==
    /\ pts \in [pa : PlanarPoints, pb : PlanarPoints, pc : PlanarPoints]
    /\ det = Idle
    /\ pc = "drawn"
    /\ bbox = Idle /\ called = Idle /\ holdsPoint = Idle /\ extent = Idle
    /\ numVertices = Idle /\ idx = Idle /\ seen = Idle /\ via = Idle
    /\ pre = Idle /\ lastPoint = Idle /\ nExpands = Idle
    /\ matA = Idle /\ matB = Idle /\ outcome = Idle
    /\ dval = Idle /\ mult = Idle /\ quotient = Idle /\ quantized = Idle /\ dequantized = Idle
    /\ boxA = Idle /\ boxB = Idle /\ intersects = Idle /\ number = Idle /\ sqrt_val = Idle

CallOrient2d ==
    /\ pc = "drawn"
    /\ det' = [abc |-> orient2d(pts.pa, pts.pb, pts.pc),
               bac |-> orient2d(pts.pb, pts.pa, pts.pc)]
    /\ pc' = "orient2d"
    /\ UNCHANGED <<boxVars, makeVars, expandVars, pts, extent, matVars, quantVars, intersectVars, sqrtVars>>

CallCollinear ==
    /\ pc = "drawn"
    /\ det' = [abc |-> collinear(pts.pa, pts.pb, pts.pc),
               bca |-> collinear(pts.pb, pts.pc, pts.pa),
               cab |-> collinear(pts.pc, pts.pa, pts.pb)]
    /\ pc' = "collinear"
    /\ UNCHANGED <<boxVars, makeVars, expandVars, pts, extent, matVars, quantVars, intersectVars, sqrtVars>>

PlanarNext == CallOrient2d \/ CallCollinear

SpecPlanar == PlanarInit /\ [][PlanarNext]_vars

\* C9: orient2d(a,b,c) = -orient2d(b,a,c).
C9_Orient2dAntisymmetric == pc = "orient2d" => det.abc = -det.bac

\* A counter-clockwise triple.
C9_Witness ==
    /\ pc = "orient2d"
    /\ det.abc > 0
    /\ det.bac < 0

\* C10: collinear(a,b,c) = collinear(b,c,a) = collinear(c,a,b).
C10_CollinearCyclic ==
    pc = "collinear" => (det.abc = det.bca /\ det.bca = det.cab)

\* Three distinct points on one line.
C10_Witness ==
    /\ pc = "collinear"
    /\ det.abc /\ det.bca /\ det.cab
    /\ pts.pa # pts.pb /\ pts.pb # pts.pc /\ pts.pa # pts.pc

----------------------------------------------------------------------------
(* SpecMatrix: the matrix operators on two matrices of any shapes.         *)

Matrices ==
    UNION {[m_rows : {rows}, m_cols : {cols}, m_entries : [1 .. rows * cols -> Entries]] :
               rows \in 1 .. MaxRows, cols \in 1 .. MaxCols}

MatrixInit ==
    /\ matA \in Matrices
    /\ matB \in Matrices
    /\ outcome = [op |-> "none"]
    /\ pc = "constructed"
    /\ bbox = Idle /\ called = Idle /\ holdsPoint = Idle /\ extent = Idle
    /\ numVertices = Idle /\ idx = Idle /\ seen = Idle /\ via = Idle
    /\ pre = Idle /\ lastPoint = Idle /\ nExpands = Idle
    /\ pts = Idle /\ det = Idle
    /\ dval = Idle /\ mult = Idle /\ quotient = Idle /\ quantized = Idle /\ dequantized = Idle
    /\ boxA = Idle /\ boxB = Idle /\ intersects = Idle /\ number = Idle /\ sqrt_val = Idle

\* matA * matB: the three loops run whatever the shapes are.  A read past
\* the end of matB's entries is undefined: it yields any value, or the
\* process dies on it.  The first such read is other(other.rows(), 0) in
\* the first inner loop, after 2 * other.rows() + 1 reads inside bounds.
MatMul ==
    /\ pc = "constructed"
    /\ \/ \E beyond \in [ReadsBeyond(matA, matB) -> Entries] :
            outcome' = [op |-> "mul", end |-> "returned",
                        reads |-> 2 * matA.m_rows * matB.m_cols * matA.m_cols,
                        beyond |-> Cardinality(ReadsBeyond(matA, matB)),
                        result |-> matrix_mul(matA, matB, beyond)]
       \/ /\ ReadsBeyond(matA, matB) # {}
          /\ outcome' = [op |-> "mul", end |-> "crashed",
                         reads |-> 2 * matB.m_rows + 1,
                         beyond |-> 1]
    /\ pc' = "called"
    /\ UNCHANGED <<boxVars, makeVars, expandVars, orientVars, extent, matA, matB, quantVars, intersectVars, sqrtVars>>

\* matA - matB
MatSub ==
    /\ pc = "constructed"
    /\ IF matB.m_rows = matA.m_rows /\ matB.m_cols = matA.m_cols
       THEN outcome' = [op |-> "sub", end |-> "returned",
                        reads |-> 2 * matA.m_rows * matA.m_cols,
                        result |-> matrix_sub(matA, matB)]
       ELSE outcome' = [op |-> "sub", end |-> "assert_failed", reads |-> 0]
    /\ pc' = "called"
    /\ UNCHANGED <<boxVars, makeVars, expandVars, orientVars, extent, matA, matB, quantVars, intersectVars, sqrtVars>>

\* matA * v, v a vec3
MatMulVec ==
    /\ pc = "constructed"
    /\ \E v \in [1 .. 3 -> Entries] :
        IF matA.m_cols = 3 /\ matA.m_rows = 2
        THEN outcome' = [op |-> "mulvec", end |-> "returned",
                         reads |-> 2 * 3,
                         result |-> matrix_mul_vec3(matA, v)]
        ELSE outcome' = [op |-> "mulvec", end |-> "assert_failed", reads |-> 0]
    /\ pc' = "called"
    /\ UNCHANGED <<boxVars, makeVars, expandVars, orientVars, extent, matA, matB, quantVars, intersectVars, sqrtVars>>

MatrixNext == MatMul \/ MatSub \/ MatMulVec

SpecMatrix == MatrixInit /\ [][MatrixNext]_vars

\* A matrix operator was called on shapes its contract excludes.
ShapesMismatch ==
    \/ outcome.op = "mul" /\ matA.m_cols # matB.m_rows
    \/ outcome.op = "sub" /\ (matA.m_rows # matB.m_rows \/ matA.m_cols # matB.m_cols)
    \/ outcome.op = "mulvec" /\ (matA.m_cols # 3 \/ matA.m_rows # 2)

\* C6: a multiplication whose inner dimensions differ (cols() of the left
\* operand is not rows() of the right one) ends in a failed assertion before
\* any entry is read, as subtraction and matrix-times-vector do on the shapes
\* they exclude.
C6_MismatchedShapesAssert ==
    (pc = "called" /\ ShapesMismatch) =>
        (outcome.end = "assert_failed" /\ outcome.reads = 0)

----------------------------------------------------------------------------
(* SpecQuant: quantize(d, m) and then dequantize of what it returned, with *)
(* the same multiplier.  The multipliers are 0 and one full binade of      *)
(* doubles, the values d every double below the top of that binade: double *)
(* arithmetic is the same in every binade short of overflow and underflow. *)

Multipliers == {0} \cup {m \in Doubles : m >= DoubleTop \div 2}

QuantInit ==
    /\ dval \in Doubles
    /\ mult \in Multipliers
    /\ quotient = Idle
    /\ quantized = Idle
    /\ dequantized = Idle
    /\ pc = "drawn"
    /\ bbox = Idle /\ called = Idle /\ holdsPoint = Idle /\ extent = Idle
    /\ numVertices = Idle /\ idx = Idle /\ seen = Idle /\ via = Idle
    /\ pre = Idle /\ lastPoint = Idle /\ nExpands = Idle
    /\ pts = Idle /\ det = Idle
    /\ matA = Idle /\ matB = Idle /\ outcome = Idle
    /\ boxA = Idle /\ boxB = Idle /\ intersects = Idle /\ number = Idle /\ sqrt_val = Idle

\* quantize(dval, mult)
Quantize ==
    /\ pc = "drawn"
    /\ IF QuantizeAsserts(dval, mult)
       THEN /\ quotient' = IF dval = 0 THEN Idle ELSE DoubleDivide(dval, mult)
            /\ quantized' = quantize(dval, mult)
            /\ pc' = "quantized"
       ELSE /\ pc' = "quantize_assert_failed"
            /\ UNCHANGED <<quotient, quantized>>
    /\ UNCHANGED <<boxVars, makeVars, expandVars, orientVars, matVars, extent, intersectVars, sqrtVars,
                   dval, mult, dequantized>>

\* dequantize(quantized, mult)
Dequantize ==
    /\ pc = "quantized"
    /\ \E mode \in RoundModes :
        IF quantized = 0
           \/ /\ DequantizeAssertsInput(quantized)
              /\ DequantizeAssertsResult(dequantize(quantized, mult, mode), mult)
        THEN /\ dequantized' = dequantize(quantized, mult, mode)
             /\ pc' = "dequantized"
        ELSE /\ pc' = "dequantize_assert_failed"
             /\ UNCHANGED dequantized
    /\ UNCHANGED <<boxVars, makeVars, expandVars, orientVars, matVars, extent, intersectVars, sqrtVars,
                   dval, mult, quotient, quantized>>

QuantNext == Quantize \/ Dequantize

SpecQuant == QuantInit /\ [][QuantNext]_vars

QuantizeReturned == pc \in {"quantized", "dequantized"}

\* C5 as stated: for m > 0 and |d| <= m, quantize(d, m) is d / m * 2^26
\* rounded to the nearest integer, and lies in [-2^26, 2^26].
C5_QuantizeRoundsToNearest ==
    QuantizeReturned =>
        /\ 2 * Abs(quantized * mult - dval * QuantScale) <= mult
        /\ quantized \in (-QuantScale) .. QuantScale

\* C5, amended: for m > 0 and |d| <= m, quantize(d, m) is the double product
\* n * 2^26, n the double quotient d / m, with its fraction dropped (rounded
\* toward zero, which is what the conversion to int does); it is 0 or has the
\* sign of d, is less than 1 away from d / m * 2^26, and lies in
\* [-2^26, 2^26].
C5_QuantizeTruncates ==
    QuantizeReturned =>
        /\ quantized \in (-QuantScale) .. QuantScale
        /\ quantized * dval >= 0
        /\ Abs(quantized * mult - dval * QuantScale) < mult
        /\ dval = 0 => quantized = 0
        /\ dval # 0 =>
            /\ Abs(quantized) * 2^quotient.shift <= quotient.mant * QuantScale
            /\ quotient.mant * QuantScale < (Abs(quantized) + 1) * 2^quotient.shift

\* quantize dropped a fraction above one half: the nearest integer is the
\* next one.
C5_Witness ==
    /\ QuantizeReturned
    /\ quantized > 0
    /\ 2 * (dval * QuantScale - quantized * mult) > mult

\* C7 as stated: for m > 0 and |d| <= m, d' = dequantize(quantize(d, m), m)
\* has |d' - d| <= m / 2^26 and |d'| <= m; for d = 0, quantize returns zero
\* and d' = 0.
C7_RoundTripWithinOneStep ==
    pc = "dequantized" =>
        /\ QuantScale * Abs(dequantized - dval) <= mult
        /\ Abs(dequantized) <= mult
        /\ dval = 0 => (quantized = 0 /\ dequantized = 0)

\* C7, amended: |d' - d| < m / 2^26 + u, where u is the spacing of the
\* doubles at d' (the exact product (i / 2^26) * m is less than one step from
\* d, and its conversion to double rounds it by less than u); |d'| <= m; for
\* d = 0, quantize returns zero and d' = 0.
C7_RoundTripWithinOneStepAndUlp ==
    pc = "dequantized" =>
        /\ QuantScale * Abs(dequantized - dval)
                < mult + QuantScale * Spacing(Abs(dequantized), 1)
        /\ Abs(dequantized) <= mult
        /\ dval = 0 => (quantized = 0 /\ dequantized = 0)

\* A round trip that lost more than one step of the 2^26 grid.
C7_Witness ==
    /\ pc = "dequantized"
    /\ quantized # 0
    /\ QuantScale * Abs(dequantized - dval) > mult

----------------------------------------------------------------------------
(* SpecIntersect: intersect_bounding_boxes(a, b) and (b, a) on two boxes,  *)
(* each the default box or the default box expanded by one or two points.  *)

MaxBoxCoord == 1

\* Coordinates of the points merged into the boxes, all within +-DBL_MAX.
BoxCoords == -1 .. MaxBoxCoord

\* An intersect_bounding_boxes that tests only amin <= bmax on the x axis.
intersect_x_one_sided(a, b) ==
    /\ a.m_minimum[1] <= b.m_maximum[1]
    /\ a.m_minimum[2] <= b.m_maximum[2] /\ a.m_maximum[2] >= b.m_minimum[2]
    /\ a.m_minimum[3] <= b.m_maximum[3] /\ a.m_maximum[3] >= b.m_minimum[3]

\* An intersect_bounding_boxes with strict comparisons: open intervals.
intersect_strict(a, b) ==
    /\ a.m_minimum[1] < b.m_maximum[1] /\ a.m_maximum[1] > b.m_minimum[1]
    /\ a.m_minimum[2] < b.m_maximum[2] /\ a.m_maximum[2] > b.m_minimum[2]
    /\ a.m_minimum[3] < b.m_maximum[3] /\ a.m_maximum[3] > b.m_minimum[3]

\* (amin.x() <= bmax.x() && amax.x() >= bmin.x()) && ... y ... && ... z ...
intersect_bounding_boxes(a, b) ==
    /\ a.m_minimum[1] <= b.m_maximum[1] /\ a.m_maximum[1] >= b.m_minimum[1]
    /\ a.m_minimum[2] <= b.m_maximum[2] /\ a.m_maximum[2] >= b.m_minimum[2]
    /\ a.m_minimum[3] <= b.m_maximum[3] /\ a.m_maximum[3] >= b.m_minimum[3]

BoxPoints == [Dims -> BoxCoords]

ConstructedBoxes ==
    {bounding_box_default}
        \cup {expand_point(expand_point(bounding_box_default, p), q) :
                  p \in BoxPoints, q \in BoxPoints}

IntersectInit ==
    /\ boxA \in ConstructedBoxes
    /\ boxB \in ConstructedBoxes
    /\ intersects = Idle
    /\ pc = "constructed"
    /\ bbox = Idle /\ called = Idle /\ holdsPoint = Idle /\ extent = Idle
    /\ numVertices = Idle /\ idx = Idle /\ seen = Idle /\ via = Idle
    /\ pre = Idle /\ lastPoint = Idle /\ nExpands = Idle
    /\ pts = Idle /\ det = Idle
    /\ matA = Idle /\ matB = Idle /\ outcome = Idle
    /\ dval = Idle /\ mult = Idle /\ quotient = Idle /\ quantized = Idle /\ dequantized = Idle
    /\ number = Idle /\ sqrt_val = Idle

CallIntersect ==
    /\ pc = "constructed"
    /\ intersects' = [ab |-> intersect_bounding_boxes(boxA, boxB),
                      ba |-> intersect_bounding_boxes(boxB, boxA)]
    /\ pc' = "returned"
    /\ UNCHANGED <<boxVars, makeVars, expandVars, orientVars, matVars, quantVars,
                   boxA, boxB, sqrtVars, extent>>

IntersectNext == CallIntersect

SpecIntersect == IntersectInit /\ [][IntersectNext]_vars

\* C11: intersect_bounding_boxes(a, b) = intersect_bounding_boxes(b, a) for
\* all boxes a and b, the empty default-constructed box included.
C11_IntersectSymmetric == pc = "returned" => intersects.ab = intersects.ba

\* Two different boxes that intersect, and a box against the empty box.
C11_Witness ==
    /\ pc = "returned"
    /\ \/ boxA # boxB /\ Ordered(boxA) /\ Ordered(boxB) /\ intersects.ab /\ intersects.ba
       \/ boxA = bounding_box_default /\ Ordered(boxB) /\ ~intersects.ab /\ ~intersects.ba

\* The closed intervals [a.min, a.max] and [b.min, b.max] share a value on axis dim.
SharesValue(a, b, dim) ==
    \E v \in BoxCoords :
        /\ a.m_minimum[dim] <= v /\ v <= a.m_maximum[dim]
        /\ b.m_minimum[dim] <= v /\ v <= b.m_maximum[dim]

\* C12: for boxes a and b with minimum <= maximum, intersect_bounding_boxes
\* is true exactly when on every axis the closed intervals [a.min, a.max]
\* and [b.min, b.max] share a value; a box intersects itself.
C12_ClosedIntervalOverlap ==
    (pc = "returned" /\ Ordered(boxA) /\ Ordered(boxB)) =>
        /\ intersects.ab = (\A dim \in Dims : SharesValue(boxA, boxB, dim))
        /\ boxA = boxB => intersects.ab

\* Two boxes that touch only at a corner: on every axis the intervals share
\* exactly one value.
C12_Witness ==
    /\ pc = "returned"
    /\ Ordered(boxA) /\ Ordered(boxB)
    /\ \A dim \in Dims :
        /\ boxA.m_minimum[dim] < boxA.m_maximum[dim]
        /\ boxA.m_maximum[dim] = boxB.m_minimum[dim]
        /\ boxB.m_minimum[dim] < boxB.m_maximum[dim]
    /\ intersects.ab

----------------------------------------------------------------------------
(* SpecSqrt: square_root(number, multiplier) in exact mode, on a quantized *)
(* number in [0, 1 << 26] and any positive multiplier.  A scaled double v  *)
(* stands for the real v / One, so multipliers on both sides of 1.0 occur. *)

UnitBits == 4

\* 1.0 in the scaled doubles
One == 2^UnitBits

\* The greatest integer whose square is at most v (v >= 0).
FloorSqrt(v) == CHOOSE r \in 0 .. v : r * r <= v /\ v < (r + 1) * (r + 1)

\* std::sqrt(d), d >= 0: the root of the real d / One, rounded to the nearest
\* double as IEEE 754 requires of sqrt.
DoubleSqrt(d) ==
    LET square == d * One
        g == Spacing(FloorSqrt(square), 1)
        lo == g * (FloorSqrt(square) \div g)
        hi == lo + g
    IN  IF 4 * square < (lo + hi) * (lo + hi) THEN lo
        ELSE IF 4 * square > (lo + hi) * (lo + hi) THEN hi
        ELSE IF (lo \div g) % 2 = 0 THEN lo ELSE hi

SqrtInit ==
    /\ number \in 0 .. QuantScale
    /\ mult \in {m \in Doubles : m > 0}
    /\ dequantized = Idle
    /\ sqrt_val = Idle
    /\ quantized = Idle
    /\ pc = "drawn"
    /\ dval = Idle /\ quotient = Idle
    /\ bbox = Idle /\ called = Idle /\ holdsPoint = Idle /\ extent = Idle
    /\ numVertices = Idle /\ idx = Idle /\ seen = Idle /\ via = Idle
    /\ pre = Idle /\ lastPoint = Idle /\ nExpands = Idle
    /\ pts = Idle /\ det = Idle
    /\ matA = Idle /\ matB = Idle /\ outcome = Idle
    /\ boxA = Idle /\ boxB = Idle /\ intersects = Idle

\* square_root(number, mult): dequantize, std::sqrt, quantize; an assertion
\* of dequantize or of quantize that fails ends the call.
CallSquareRoot ==
    /\ pc = "drawn"
    /\ \E mode \in RoundModes :
        LET d == dequantize(number, mult, mode)
            root == DoubleSqrt(d)
        IN  IF number # 0 /\ ~(DequantizeAssertsInput(number) /\ DequantizeAssertsResult(d, mult))
            THEN /\ pc' = "dequantize_assert_failed"
                 /\ UNCHANGED <<dequantized, sqrt_val, quantized>>
            ELSE /\ dequantized' = d
                 /\ sqrt_val' = root
                 /\ IF QuantizeAsserts(root, mult)
                    THEN /\ quantized' = quantize(root, mult)
                         /\ pc' = "sqrt_returned"
                    ELSE /\ pc' = "quantize_assert_failed"
                         /\ UNCHANGED quantized
    /\ UNCHANGED <<boxVars, makeVars, expandVars, orientVars, matVars, intersectVars,
                   extent, dval, mult, quotient, number>>

SqrtNext == CallSquareRoot

SpecSqrt == SqrtInit /\ [][SqrtNext]_vars

\* C13: for every multiplier > 0 and every number in [0, 2^26], the square
\* root of dequantize(number, multiplier) has magnitude <= multiplier, so the
\* re-quantization does not fail the assertion |d| <= m.
C13_SquareRootKeepsPrecondition ==
    /\ pc # "quantize_assert_failed"
    /\ pc = "sqrt_returned" => Abs(sqrt_val) <= mult

----------------------------------------------------------------------------
(* SpecDequant: dequantize(i, m) on its own, on exact inputs i inside and  *)
(* up to MaxExcess outside [-(1 << 26), 1 << 26], and any positive m.      *)

MaxExcess == 2

DequantInit ==
    /\ quantized \in (-(QuantScale + MaxExcess)) .. (QuantScale + MaxExcess)
    /\ mult \in {m \in Doubles : m > 0}
    /\ dequantized = Idle
    /\ pc = "quantized"
    /\ dval = Idle /\ quotient = Idle
    /\ bbox = Idle /\ called = Idle /\ holdsPoint = Idle /\ extent = Idle
    /\ numVertices = Idle /\ idx = Idle /\ seen = Idle /\ via = Idle
    /\ pre = Idle /\ lastPoint = Idle /\ nExpands = Idle
    /\ pts = Idle /\ det = Idle
    /\ matA = Idle /\ matB = Idle /\ outcome = Idle
    /\ boxA = Idle /\ boxB = Idle /\ intersects = Idle /\ number = Idle /\ sqrt_val = Idle

DequantNext == Dequantize

SpecDequant == DequantInit /\ [][DequantNext]_vars

\* C14: dequantize(i, m) with m > 0 stops every i outside [-2^26, 2^26],
\* above or below, by a failed assertion, and every value it returns has
\* magnitude <= m.
C14_DequantizeGuardsBothSides ==
    /\ (pc # "quantized" /\ Abs(quantized) > QuantScale) => pc = "dequantize_assert_failed"
    /\ pc = "dequantized" => Abs(dequantized) <= mult
====
